---- MODULE Spec2Model ----
(***************************************************************************)
(* Model of the Cumulocity SmartREST device agent in src/main.go.          *)
(*                                                                         *)
(* Strings are modelled as sequences of tokens.  A token is either one of  *)
(* the three characters the CSV reader treats specially (comma, double     *)
(* quote, line feed) or an atom that stands for a run of ordinary          *)
(* characters ("510", "dev1", "c8y_Restart").  A payload, a CSV field and  *)
(* a published message are all token sequences, so that quoting, field     *)
(* splitting and the text a format call builds are computed, not assumed.  *)
(***************************************************************************)
EXTENDS Integers, Sequences, FiniteSets, TLC

COMMA == ","
QUOTE == "\""
NL == "\n"

\* ------------------------------------------------------------------ bounds
\* Messages the broker delivers on s/ds in one run.
MaxMsgs == 2
\* Iterations of the periodic telemetry loop in one run.
MaxTicks == 1
\* Longest generated row (number of fields) of the codec input pool.
MaxFields == 10
\* Times the connection to the broker is lost in one run.
MaxLosses == 1

\* --------------------------------------------------------- encoding/csv
\* csv.NewReader(...).ReadAll() with the default settings (Comma ',',
\* FieldsPerRecord 0, LazyQuotes false), as a character automaton over the
\* payload.  mode: "line" (at the start of a line), "field" (at the start
\* of a field), "bare" (inside an unquoted field), "quoted" (inside a
\* quoted field), "endq" (just after a quote inside a quoted field).
\* nf is FieldsPerRecord: 0 until the first record fixes it.  The result is
\* [records, err]; on any error ReadAll returns nil records.
CsvFail(e) == [records |-> <<>>, err |-> e]

RECURSIVE CsvScan(_, _, _, _, _, _, _)
CsvScan(s, i, mode, fld, rec, recs, nf) ==
    LET endRec(r) == IF nf = 0 \/ Len(r) = nf
                     THEN CsvScan(s, i + 1, "line", <<>>, <<>>, Append(recs, r),
                                  IF nf = 0 THEN Len(r) ELSE nf)
                     ELSE CsvFail("ErrFieldCount")
        lastRec(r) == IF nf = 0 \/ Len(r) = nf
                      THEN [records |-> Append(recs, r), err |-> "nil"]
                      ELSE CsvFail("ErrFieldCount")
    IN  IF i > Len(s)
        THEN CASE mode = "line"   -> [records |-> recs, err |-> "nil"]
               [] mode = "quoted" -> CsvFail("ErrQuote")
               [] OTHER           -> lastRec(Append(rec, fld))
        ELSE LET c == s[i] IN
             CASE mode = "line" ->
                    IF c = NL
                    THEN CsvScan(s, i + 1, "line", <<>>, <<>>, recs, nf)
                    ELSE CsvScan(s, i, "field", <<>>, <<>>, recs, nf)
               [] mode = "field" ->
                    IF c = QUOTE
                    THEN CsvScan(s, i + 1, "quoted", <<>>, rec, recs, nf)
                    ELSE CsvScan(s, i, "bare", <<>>, rec, recs, nf)
               [] mode = "bare" ->
                    IF c = COMMA
                    THEN CsvScan(s, i + 1, "field", <<>>, Append(rec, fld), recs, nf)
                    ELSE IF c = NL THEN endRec(Append(rec, fld))
                    ELSE IF c = QUOTE THEN CsvFail("ErrBareQuote")
                    ELSE CsvScan(s, i + 1, "bare", Append(fld, c), rec, recs, nf)
               [] mode = "quoted" ->
                    IF c = QUOTE
                    THEN CsvScan(s, i + 1, "endq", fld, rec, recs, nf)
                    ELSE CsvScan(s, i + 1, "quoted", Append(fld, c), rec, recs, nf)
               [] OTHER ->
                    IF c = QUOTE
                    THEN CsvScan(s, i + 1, "quoted", Append(fld, QUOTE), rec, recs, nf)
                    ELSE IF c = COMMA
                    THEN CsvScan(s, i + 1, "field", <<>>, Append(rec, fld), recs, nf)
                    ELSE IF c = NL THEN endRec(Append(rec, fld))
                    ELSE CsvFail("ErrQuote")

\* records, _ := reader.ReadAll()  -- the error is discarded by the caller.
ReadAll(message) == CsvScan(message, 1, "line", <<>>, <<>>, <<>>, 0).records

\* ------------------------------------------------------- literal strings
\* The text "a,b,c" of a string literal whose comma-separated parts are the
\* atoms a, b, c.
RECURSIVE Lit(_)
Lit(atoms) ==
    IF Len(atoms) = 0 THEN <<>>
    ELSE IF Len(atoms) = 1 THEN <<atoms[1]>>
    ELSE <<atoms[1], COMMA>> \o Lit(Tail(atoms))

deviceName == "showcase-device-01"
deviceSerial == "kobu-sn-7123"

\* The publishes of main and setDeviceProperties, in program order.
StartupPublishes ==
    << [topic |-> <<"s/us">>, msg |-> Lit(<<"100", deviceName, "yourDeviceType">>)],
       [topic |-> <<"s/us">>,
        msg |-> Lit(<<"114", "c8y_Firmware", "c8y_Restart", "c8y_SoftwareList",
                      "c8y_SoftwareUpdate", "c8y_LogfileRequest",
                      "c8y_RemoteAccessConnect", "c8y_DeviceProfile">>)],
       [topic |-> <<"s/us">>,
        msg |-> Lit(<<"115", "firmwareName", "firmwareVersion", "firmwareUrl">>)],
       [topic |-> <<"s/us">>,
        msg |-> Lit(<<"116", "software1", "1.0.1", "url1", "software2", "1.0.2",
                      "url2", "software3", "1.0.3">>)],
       [topic |-> <<"s/us">>, msg |-> Lit(<<"110", deviceName, "myHardwareModel", "1.2.3">>)],
       [topic |-> <<"s/us">>, msg |-> Lit(<<"112", "50.323423", "6.423423">>)],
       [topic |-> <<"s/us">>, msg |-> Lit(<<"118", "dpkg", "container", "logread">>)],
       [topic |-> <<"s/us">>,
        msg |-> Lit(<<"122", "your-device-agent", "0.1", "https://cumulocity.com">>)
                \o <<COMMA, QUOTE, "Korbinian Butz", QUOTE>>],
       [topic |-> <<"s/us">>, msg |-> Lit(<<"117", "60">>)],
       [topic |-> <<"inventory/managedObjects/update/", deviceSerial>>,
        msg |-> <<"{yourCustomFragment:{a:abc,b:123,c:[1,2,3]}}">>] >>

\* Mutant: the batch holds its first row only.
TelemetryBatch_FirstRow ==
    <<NL>> \o Lit(<<"200", "temperature", "T", "15">>) \o <<NL>>

\* The six-row batch of generateMeasurementsEventsAlarms (a raw string
\* literal that starts and ends with a line feed).
TelemetryBatch ==
    <<NL>> \o Lit(<<"200", "temperature", "T", "15">>)
    \o <<NL>> \o Lit(<<"200", "pressure", "p", "15">>)
    \o <<NL>> \o Lit(<<"200", "yourMeasurementCategory", "yourMeasurementName", "16">>)
    \o <<NL>> \o <<"201", COMMA, "yourMeaType", COMMA, COMMA>>
              \o Lit(<<"c8y_SinglePhaseEnergyMeasurement", "A1", "1234", "kWh",
                       "c8y_SinglePhaseEnergyMeasurement", "A2", "2345", "kWh">>)
    \o <<NL>> \o <<"400", COMMA, "yourEventType", COMMA, QUOTE, "Your Event description", QUOTE>>
    \o <<NL>> \o <<"301", COMMA, "yourAlarmType", COMMA, QUOTE, "here is your alarm text", QUOTE>>
    \o <<NL>>

\* The JSON event document built with sjson (its time stamp is not modelled).
TelemetryEventJson == <<"{time,text:Your new Event,type:myCustomEventType,yourCustomFragment:123}">>

\* ------------------------------------------------ handleReceivedMessage
\* The template identifiers of the switch, as fields (token sequences).
Recognized == { <<"510">>, <<"511">>, <<"515">>, <<"522">>, <<"528">>, <<"530">> }

\* Mutant: the default case logs record[2] as well.
MaxIndexRead_DefaultReads(templateId) ==
    CASE templateId = <<"510">> -> 1
      [] templateId = <<"511">> -> 2
      [] templateId = <<"515">> -> 4
      [] templateId = <<"522">> -> 5
      [] templateId = <<"528">> -> 1
      [] templateId = <<"530">> -> 4
      [] OTHER -> 2

\* The highest index of record that the case for templateId reads before
\* its first publish (0 for the default case, which indexes nothing more).
MaxIndexRead(templateId) ==
    CASE templateId = <<"510">> -> 1
      [] templateId = <<"511">> -> 2
      [] templateId = <<"515">> -> 4
      [] templateId = <<"522">> -> 5
      [] templateId = <<"528">> -> 1
      [] templateId = <<"530">> -> 4
      [] OTHER -> 0

\* Mutant: case "522" names the capability of case "511".
Capability_Mixed(templateId) ==
    CASE templateId = <<"510">> -> "c8y_Restart"
      [] templateId = <<"511">> -> "c8y_Command"
      [] templateId = <<"515">> -> "c8y_Firmware"
      [] templateId = <<"522">> -> "c8y_Command"
      [] templateId = <<"528">> -> "c8y_SoftwareUpdate"
      [] templateId = <<"530">> -> "c8y_RemoteAccessConnect"
      [] OTHER -> "none"

\* The capability name each case uses in its 501 and 503 rows.
Capability(templateId) ==
    CASE templateId = <<"510">> -> "c8y_Restart"
      [] templateId = <<"511">> -> "c8y_Command"
      [] templateId = <<"515">> -> "c8y_Firmware"
      [] templateId = <<"522">> -> "c8y_LogfileRequest"
      [] templateId = <<"528">> -> "c8y_SoftwareUpdate"
      [] templateId = <<"530">> -> "c8y_RemoteAccessConnect"
      [] OTHER -> "none"

\* Go's integer division truncates toward zero.
GoDiv(a, b) == IF a >= 0 THEN a \div b ELSE -((-a) \div b)

\* countSoftwarePackages := (len(record) - 2) / 4
countSoftwarePackages(record) == GoDiv(Len(record) - 2, 4)

\* Mutant: the groups are read from the serial number on (an offset of 1
\* instead of 2).
SoftwarePackage_Shifted(record, i) ==
    [name    |-> record[1 + (i * 4) + 1],
     version |-> record[1 + (i * 4) + 1 + 1],
     url     |-> record[1 + (i * 4) + 2 + 1],
     action  |-> record[1 + (i * 4) + 3 + 1]]

\* The package built in iteration i (from 0) of the loop of case "528";
\* Go's record[k] is record[k + 1] here.
SoftwarePackage(record, i) ==
    [name    |-> record[2 + (i * 4) + 1],
     version |-> record[2 + (i * 4) + 1 + 1],
     url     |-> record[2 + (i * 4) + 2 + 1],
     action  |-> record[2 + (i * 4) + 3 + 1]]

\* receivedSoftwarePackages after the loop (range over a count <= 0 runs
\* no iteration).
receivedSoftwarePackages(record) ==
    LET n == countSoftwarePackages(record)
    IN  [i \in 1..(IF n > 0 THEN n ELSE 0) |-> SoftwarePackage(record, i - 1)]

\* Mutant: the version and the url change places in the format call.
Sprintf115_Swapped(fwName, fwVersion, fwUrl) ==
    <<"115", COMMA>> \o fwName \o <<COMMA>> \o fwUrl \o <<COMMA>> \o fwVersion

\* fmt.Sprintf("115,%s,%s,%s", fwName, fwVersion, fwUrl): the fields are
\* pasted in as they are, with no quoting.
Sprintf115(fwName, fwVersion, fwUrl) ==
    <<"115", COMMA>> \o fwName \o <<COMMA>> \o fwVersion \o <<COMMA>> \o fwUrl

\* Mutant: the first status row names the terminal state.
StatusExecuting_Terminal(templateId) == <<"503", COMMA, Capability(templateId)>>

StatusExecuting(templateId) == <<"501", COMMA, Capability(templateId)>>
\* Mutant: every terminal row names the restart capability (a row copied
\* from case "510" and not adapted).
StatusSuccessful_Restart(templateId) == <<"503", COMMA, "c8y_Restart">>

\* Mutant: the terminal row is the FAILED row of the comment in case "510".
StatusSuccessful_Failed(templateId) ==
    <<"502", COMMA, Capability(templateId), COMMA, QUOTE, "failed because of XYZ", QUOTE>>

\* Mutant: the last status row repeats the EXECUTING row.
StatusSuccessful_Executing(templateId) == <<"501", COMMA, Capability(templateId)>>

StatusSuccessful(templateId) == <<"503", COMMA, Capability(templateId)>>

\* The row case "515" and case "528" publish between the 501 and 503 rows.
InventoryRow(record) ==
    IF record[1] = <<"515">>
    THEN Sprintf115(record[3], record[4], record[5])
    ELSE Lit(<<"116", "software1", "version1", "url1", "software2">>)
         \o <<COMMA, COMMA>> \o Lit(<<"url2", "software3", "version3">>)

HasInventoryRow(templateId) == templateId \in { <<"515">>, <<"528">> }

\* ---------------------------------------------------------------- inputs
\* Field values of generated rows: Args[k] is the value of field k (from 0).
Args == <<"dev1", "a", "b", "c", "d", "e", "g", "h", "i", "j", "k", "l", "m">>

\* The row id,Args[1],... with n fields in all.
GenRow(id, n) == Lit(<<id>> \o [k \in 1..(n - 1) |-> Args[k]])

TemplateIds == {"510", "511", "515", "522", "528", "530", "999"}

\* Payloads the broker delivers in the system specification: a shell
\* command, a firmware update (which has an inventory row), an unsupported
\* template, a row that is too short and an empty payload.
Payloads ==
    { Lit(<<"511", "dev1", "ls">>),
      Lit(<<"515", "dev1", "fwA", "2.0", "http://x">>),
      Lit(<<"999", "dev1">>),
      Lit(<<"522", "dev1">>),
      <<>> }

\* Payloads of the codec specification: every template identifier with every
\* field count, the examples of the specification, rows with quoted fields,
\* broken quoting, empty payloads and payloads of several rows.
CodecPayloads ==
    { GenRow(id, n) : id \in TemplateIds, n \in 1..MaxFields }
    \cup { Lit(<<"528", "dev1", "sw1", "1.0", "u1", "install", "sw2", "2.0", "u2", "install">>),
           Lit(<<"515", "dev1", "fwA", "2.0", "http://x">>),
           <<"515", COMMA, "dev1", COMMA, QUOTE, "fw", COMMA, "A", QUOTE, COMMA, "2.0", COMMA, "u">>,
           <<"510", COMMA, QUOTE, "dev", QUOTE, QUOTE, "1", QUOTE>>,
           <<>>,
           <<NL>>,
           <<NL, "510", COMMA, "dev1", NL>>,
           <<"510", COMMA, QUOTE, "dev1">>,
           <<QUOTE, "510", COMMA, "dev1">>,
           <<"510", COMMA, "de", QUOTE, "v1">>,
           <<"510", COMMA, QUOTE, "dev1", QUOTE, "x">>,
           <<"510", COMMA, "dev1", NL, "511", COMMA, "dev1", COMMA, "ls">>,
           <<"510", COMMA, "dev1", NL, "510", COMMA, "dev2">>,
           <<"510", COMMA, "dev1", NL, "999", COMMA, "dev1", NL>>,
           <<"999", COMMA, "dev1", NL, "510", COMMA, "dev1">>,
           <<"511", COMMA, "dev1", COMMA, "ls", NL, NL, "511", COMMA, "dev1", COMMA, "ps", NL,
             "510", COMMA, "dev1", COMMA>> }

\* ----------------------------------------------------------------- state
VARIABLES
    mainPc,      \* main: "publish", "sleep", "go", "subscribe", "select", "returned"
    mainNext,    \* index in StartupPublishes of main's next publish
    telPc,       \* generateMeasurementsEventsAlarms: "off", "batch", "event"
    ticks,       \* iterations of the telemetry loop started so far
    subscribed,  \* client.Subscribe("s/ds", ...) has completed
    delivered,   \* number of messages the broker has delivered on s/ds
    inbox,       \* messages delivered and not yet handed to the handler
    hPc,         \* handleReceivedMessage: "idle", "executing", "acting",
                 \*   "inventory", "terminal"
    ops,         \* one entry per call of handleReceivedMessage, in call order
    outcome,     \* what the device action of the latest call would have come
                 \*   to: "none" (no action yet), "ok", "failed"
    published,   \* every client.Publish call, in call order
    proc,        \* the process: "running", "panicked" (run-time panic), "exited"
    connected,   \* the client holds a connection to the broker
    losses       \* number of times the connection was lost so far

vars == <<mainPc, mainNext, telPc, ticks, subscribed, delivered, inbox, hPc, ops,
          outcome, published, proc, connected, losses>>

connVars == <<connected, losses>>

mainVars == <<mainPc, mainNext, subscribed>>
telVars == <<telPc, ticks>>
handlerVars == <<hPc, ops, outcome>>

\* --------------------------------------------------------------- publish
\* publishMqttMessage: one client.Publish call with qos 1, retained false,
\* then token.Wait(); the token's error is never looked at.  task and op
\* record the caller (op is the index in ops of the handler call, else 0),
\* ok whether the call ended without a transport error (it does not while
\* the connection is down), epoch the number of connection losses before it.
\* Mutant: a publish the transport refuses is repeated until three attempts
\* have been made.
publishMqttMessage_Retrying(task, op, topic, message) ==
    LET e == [task |-> task, op |-> op, topic |-> topic, msg |-> message,
              qos |-> 1, retained |-> FALSE, ok |-> connected, epoch |-> losses]
    IN  IF connected THEN Append(published, e) ELSE published \o <<e, e, e>>

publishMqttMessage(task, op, topic, message) ==
    Append(published, [task |-> task, op |-> op, topic |-> topic, msg |-> message,
                       qos |-> 1, retained |-> FALSE, ok |-> connected,
                       epoch |-> losses])

publishSmartRestMessage(task, op, message) ==
    publishMqttMessage(task, op, <<"s/us">>, message)

\* Mutant: the JSON path publishes at quality of service 0.
publishJsonViaMqttMessage_Qos0(task, op, topic, jsonMessage) ==
    Append(published, [task |-> task, op |-> op, topic |-> topic, msg |-> jsonMessage,
                       qos |-> 0, retained |-> FALSE, ok |-> connected,
                       epoch |-> losses])

publishJsonViaMqttMessage(task, op, topic, jsonMessage) ==
    publishMqttMessage(task, op, topic, jsonMessage)

\* ------------------------------------------------------------------ main
\* State after client.Connect() succeeded.
Init ==
    /\ mainPc = "publish"
    /\ mainNext = 1
    /\ telPc = "off"
    /\ ticks = 0
    /\ subscribed = FALSE
    /\ delivered = 0
    /\ inbox = <<>>
    /\ hPc = "idle"
    /\ ops = <<>>
    /\ outcome = "none"
    /\ published = <<>>
    /\ proc = "running"
    /\ connected = TRUE
    /\ losses = 0

\* Mutant: the telemetry goroutine is started right after the 114 row,
\* before setDeviceProperties.
MainPublish_EarlyTelemetry ==
    /\ proc = "running"
    /\ mainPc = "publish"
    /\ published' = publishMqttMessage("main", 0, StartupPublishes[mainNext].topic,
                                       StartupPublishes[mainNext].msg)
    /\ mainNext' = mainNext + 1
    /\ mainPc' = IF mainNext = 1 THEN "sleep"
                 ELSE IF mainNext = Len(StartupPublishes) THEN "go"
                 ELSE "publish"
    /\ telPc' = IF mainNext = 2 THEN "batch" ELSE telPc
    /\ UNCHANGED <<subscribed, ticks, delivered, inbox, handlerVars, proc, connVars>>

\* The next publish of main (lines 51, 55) or of setDeviceProperties; the
\* first one is followed by a two-second sleep.
MainPublish ==
    /\ proc = "running"
    /\ mainPc = "publish"
    /\ published' = publishMqttMessage("main", 0, StartupPublishes[mainNext].topic,
                                       StartupPublishes[mainNext].msg)
    /\ mainNext' = mainNext + 1
    /\ mainPc' = IF mainNext = 1 THEN "sleep"
                 ELSE IF mainNext = Len(StartupPublishes) THEN "go"
                 ELSE "publish"
    /\ UNCHANGED <<subscribed, telVars, delivered, inbox, handlerVars, proc, connVars>>

\* time.Sleep(2 * time.Second)
MainSleep ==
    /\ proc = "running"
    /\ mainPc = "sleep"
    /\ mainPc' = "publish"
    /\ UNCHANGED <<mainNext, subscribed, telVars, delivered, inbox, handlerVars,
                   published, proc, connVars>>

\* go generateMeasurementsEventsAlarms(client, 5)
MainGo ==
    /\ proc = "running"
    /\ mainPc = "go"
    /\ mainPc' = "subscribe"
    /\ telPc' = "batch"
    /\ UNCHANGED <<mainNext, subscribed, ticks, delivered, inbox, handlerVars,
                   published, proc, connVars>>

\* client.Subscribe("s/ds", 1, handleReceivedMessage): on an error main
\* returns and the process ends; otherwise main blocks in select {}.
MainSubscribe(ok) ==
    /\ proc = "running"
    /\ mainPc = "subscribe"
    /\ mainPc' = IF ok THEN "select" ELSE "returned"
    /\ subscribed' = ok
    /\ proc' = IF ok THEN "running" ELSE "exited"
    /\ UNCHANGED <<mainNext, telVars, delivered, inbox, handlerVars, published, connVars>>

\* ------------------------------------- generateMeasurementsEventsAlarms
TelemetryPublishBatch ==
    /\ proc = "running"
    /\ telPc = "batch"
    /\ ticks < MaxTicks
    /\ ticks' = ticks + 1
    /\ published' = publishSmartRestMessage("telemetry", 0, TelemetryBatch)
    /\ telPc' = "event"
    /\ UNCHANGED <<mainVars, delivered, inbox, handlerVars, proc, connVars>>

\* The JSON event, then time.Sleep(sleepTimeSecs) and back to the head of
\* the loop.
TelemetryPublishEvent ==
    /\ proc = "running"
    /\ telPc = "event"
    /\ published' = publishJsonViaMqttMessage("telemetry", 0, <<"event/events/create">>,
                                              TelemetryEventJson)
    /\ telPc' = "batch"
    /\ UNCHANGED <<mainVars, ticks, delivered, inbox, handlerVars, proc, connVars>>

\* ----------------------------------------------------------- the broker
\* The broker delivers a message on s/ds.  The client's router calls the
\* subscription callback for one message at a time, in arrival order (the
\* client's default, which main does not change), so a message that arrives
\* while the handler runs waits in inbox.  busy notes whether the handler
\* was running when the message arrived.
Deliver(payload) ==
    /\ proc = "running"
    /\ subscribed
    /\ delivered < MaxMsgs
    /\ delivered' = delivered + 1
    /\ inbox' = Append(inbox, [payload |-> payload, busy |-> hPc # "idle"])
    /\ UNCHANGED <<mainVars, telVars, handlerVars, published, proc, connVars>>

\* ------------------------------------------------ handleReceivedMessage
\* The handler call in progress (the last entry of ops) and its row.
cur == Len(ops)
curRecord == ops[cur].record

\* Whether the call panics with an index out of range before its first
\* publish: records[0] on an empty records, or a record[k] of the matched
\* case beyond the row's last field.
Panics(records) ==
    \/ Len(records) = 0
    \/ Len(records[1]) <= MaxIndexRead(records[1][1])

\* The router calls the callback for the next message only when the
\* callback for the message before it has returned.
HandlerFree == hPc = "idle"

\* Lines 156-165 and the reads of the matched case up to its first publish.
\* A panic in the callback is not recovered anywhere and ends the process.
\* The default case only logs and returns.
HandleReceive ==
    /\ proc = "running"
    /\ HandlerFree
    /\ inbox # <<>>
    /\ inbox' = Tail(inbox)
    /\ LET message == Head(inbox).payload
           records == ReadAll(message)
           entry(st, rec, pk) ==
               [payload |-> message, busy |-> Head(inbox).busy, record |-> rec,
                packages |-> pk, state |-> st]
       IN  IF Panics(records)
           THEN /\ ops' = Append(ops, entry("panicked",
                                 IF Len(records) = 0 THEN <<>> ELSE records[1], <<>>))
                /\ proc' = "panicked"
                /\ hPc' = "idle"
           ELSE IF records[1][1] \in Recognized
           THEN /\ ops' = Append(ops, entry("running", records[1],
                                 IF records[1][1] = <<"528">>
                                 THEN receivedSoftwarePackages(records[1]) ELSE <<>>))
                /\ proc' = proc
                /\ hPc' = "executing"
           ELSE /\ ops' = Append(ops, entry("unsupported", records[1], <<>>))
                /\ proc' = proc
                /\ hPc' = "idle"
    /\ outcome' = "none"
    /\ UNCHANGED <<mainVars, telVars, delivered, published, connVars>>

\* publishSmartRestMessage(client, "501,<capability>")
HandlePublishExecuting ==
    /\ proc = "running"
    /\ hPc = "executing"
    /\ published' = publishSmartRestMessage("handler", cur, StatusExecuting(curRecord[1]))
    /\ hPc' = "acting"
    /\ UNCHANGED <<mainVars, telVars, delivered, inbox, ops, outcome, proc, connVars>>

\* time.Sleep(3 * time.Second), which stands for the device action.  What
\* the action would have come to on a real device (result) is not
\* something the code observes: the sleep returns nothing.
HandleAct(result) ==
    /\ proc = "running"
    /\ hPc = "acting"
    /\ outcome' = result
    /\ hPc' = IF HasInventoryRow(curRecord[1]) THEN "inventory" ELSE "terminal"
    /\ UNCHANGED <<mainVars, telVars, delivered, inbox, ops, published, proc, connVars>>

\* The 115 row of case "515" (line 196) or the 116 row of case "528" (line 228).
HandlePublishInventory ==
    /\ proc = "running"
    /\ hPc = "inventory"
    /\ published' = publishSmartRestMessage("handler", cur, InventoryRow(curRecord))
    /\ hPc' = "terminal"
    /\ UNCHANGED <<mainVars, telVars, delivered, inbox, ops, outcome, proc, connVars>>

\* publishSmartRestMessage(client, "503,<capability>") and return.
HandlePublishSuccessful ==
    /\ proc = "running"
    /\ hPc = "terminal"
    /\ published' = publishSmartRestMessage("handler", cur, StatusSuccessful(curRecord[1]))
    /\ ops' = [ops EXCEPT ![cur].state = "returned"]
    /\ hPc' = "idle"
    /\ UNCHANGED <<mainVars, telVars, delivered, inbox, outcome, proc, connVars>>

\* ------------------------------------------------------- the connection
\* The connection to the broker breaks: the client calls connectLostHandler,
\* which logs the error and does nothing else; no task is told.
ConnectionLost ==
    /\ proc = "running"
    /\ connected
    /\ losses < MaxLosses
    /\ connected' = FALSE
    /\ losses' = losses + 1
    /\ UNCHANGED <<mainVars, telVars, delivered, inbox, handlerVars, published, proc>>

\* The client connects again and calls connectHandler, which logs.
Reconnect ==
    /\ proc = "running"
    /\ ~connected
    /\ connected' = TRUE
    /\ UNCHANGED <<mainVars, telVars, delivered, inbox, handlerVars, published, proc,
                   losses>>

\* -------------------------------------------------------- specifications
Handler ==
    \/ HandleReceive
    \/ HandlePublishExecuting
    \/ \E result \in {"ok", "failed"} : HandleAct(result)
    \/ HandlePublishInventory
    \/ HandlePublishSuccessful

Next ==
    \/ MainPublish
    \/ MainSleep
    \/ MainGo
    \/ \E ok \in BOOLEAN : MainSubscribe(ok)
    \/ TelemetryPublishBatch
    \/ TelemetryPublishEvent
    \/ \E payload \in Payloads : Deliver(payload)
    \/ Handler

\* The whole program: startup, telemetry, the broker and the handler.
Spec == Init /\ [][Next]_vars

\* One handler call on one payload of CodecPayloads: the state is the one
\* after startup and Subscribe, with the payload delivered and the telemetry
\* task not yet scheduled.
CodecInit ==
    /\ mainPc = "select"
    /\ mainNext = Len(StartupPublishes) + 1
    /\ telPc = "batch"
    /\ ticks = 0
    /\ subscribed = TRUE
    /\ delivered = 1
    /\ inbox \in { <<[payload |-> p, busy |-> FALSE]>> : p \in CodecPayloads }
    /\ hPc = "idle"
    /\ ops = <<>>
    /\ outcome = "none"
    /\ published = [i \in 1..Len(StartupPublishes) |->
                      [task |-> "main", op |-> 0, topic |-> StartupPublishes[i].topic,
                       msg |-> StartupPublishes[i].msg, qos |-> 1, retained |-> FALSE,
                       ok |-> TRUE, epoch |-> 0]]
    /\ proc = "running"
    /\ connected = TRUE
    /\ losses = 0

CodecNext == Handler

CodecSpec == CodecInit /\ [][CodecNext]_vars

\* The handler under a connection that breaks and comes back: the state is
\* the one after startup and Subscribe with one or two payloads delivered.
FaultInit ==
    /\ mainPc = "select"
    /\ mainNext = Len(StartupPublishes) + 1
    /\ telPc = "batch"
    /\ ticks = 0
    /\ subscribed = TRUE
    /\ inbox \in { <<[payload |-> p, busy |-> FALSE]>> : p \in Payloads }
                \cup { <<[payload |-> p, busy |-> FALSE], [payload |-> q, busy |-> FALSE]>> :
                         p \in Payloads, q \in Payloads }
    /\ delivered = Len(inbox)
    /\ hPc = "idle"
    /\ ops = <<>>
    /\ outcome = "none"
    /\ published = [i \in 1..Len(StartupPublishes) |->
                      [task |-> "main", op |-> 0, topic |-> StartupPublishes[i].topic,
                       msg |-> StartupPublishes[i].msg, qos |-> 1, retained |-> FALSE,
                       ok |-> TRUE, epoch |-> 0]]
    /\ proc = "running"
    /\ connected = TRUE
    /\ losses = 0

FaultNext ==
    \/ Handler
    \/ ConnectionLost
    \/ Reconnect

FaultSpec == FaultInit /\ [][FaultNext]_vars

\* The program after startup, with one or two messages delivered and the
\* telemetry loop running, and with the handler's goroutine scheduled
\* whenever it can take a step: its sleeps end and its publishes return.
LiveNext ==
    \/ TelemetryPublishBatch
    \/ TelemetryPublishEvent
    \/ Handler

LiveSpec == FaultInit /\ [][LiveNext]_vars /\ WF_vars(Handler)

\* =============================================================== claims
\* The publishes of handler call k, in order, and their texts.
OpTrace(k) == SelectSeq(published, LAMBDA e : e.task = "handler" /\ e.op = k)
Texts(trace) == [i \in 1..Len(trace) |-> trace[i].msg]

\* A status fact is a row of template 501 (EXECUTING), 502 (FAILED) or 503
\* (SUCCESSFUL).
IsStatusFact(e) == e.msg[1] \in {"501", "502", "503"}
StatusFacts(k) == SelectSeq(OpTrace(k), IsStatusFact)

IsPrefix(a, b) == Len(a) <= Len(b) /\ \A i \in 1..Len(a) : a[i] = b[i]

\* The identifiers of the operation-request templates, and for each the
\* number of fields its handler reads (identifier included).
OperationIds == {"510", "511", "515", "522", "528", "530"}
FieldsRead(id) ==
    CASE id = "510" -> 2 [] id = "511" -> 3 [] id = "515" -> 5
      [] id = "522" -> 6 [] id = "528" -> 2 [] id = "530" -> 5

\* Handler call k dispatched on a row of an operation-request template that
\* carries the fields the handler reads.
IsOperation(k) ==
    /\ ops[k].record # <<>>
    /\ \E id \in OperationIds :
         ops[k].record[1] = <<id>> /\ Len(ops[k].record) >= FieldsRead(id)

\* Handler call k has passed the given point of its lifecycle.
Returned(k) == ops[k].state = "returned"
PastExecuting(k) == Returned(k) \/ (k = Len(ops) /\ hPc \in {"acting", "inventory", "terminal"})

\* C1: for every row of an operation-request template that carries the
\* fields the handler reads, the status facts the handler publishes for it
\* are, in this order, one EXECUTING row (501) and one terminal row (503 or
\* 502): none before the handler passed the first publish, the 501 row alone
\* until it returns, and exactly the two once it has returned.
C1_StatusFactsExecutingThenTerminal ==
    \A k \in 1..Len(ops) :
        IsOperation(k) =>
            LET f == StatusFacts(k)
            IN  /\ ops[k].state \in {"running", "returned"}
                /\ Len(f) = (IF Returned(k) THEN 2 ELSE IF PastExecuting(k) THEN 1 ELSE 0)
                /\ Len(f) >= 1 => f[1].msg[1] = "501"
                /\ Len(f) >= 2 => f[2].msg[1] \in {"503", "502"}

\* C1 witness: a log-file request has returned with its two status facts.
C1_Witness ==
    \E k \in 1..Len(ops) :
        /\ IsOperation(k) /\ Returned(k)
        /\ ops[k].record[1] = <<"522">>
        /\ Len(StatusFacts(k)) = 2

\* C2: the publishes made for a firmware-update row 515,serial,name,
\* version,url are, in this order, "501,c8y_Firmware", the inventory row
\* 115 followed by the name, version and url of the request, and
\* "503,c8y_Firmware": a prefix of these three while the handler runs
\* (nothing after the 503 row, no 115 row before the 501 row) and exactly
\* these three once it has returned.
C2_FirmwareLifecycle(k) ==
    LET r == ops[k].record
    IN  << <<"501", COMMA, "c8y_Firmware">>,
           <<"115", COMMA>> \o r[3] \o <<COMMA>> \o r[4] \o <<COMMA>> \o r[5],
           <<"503", COMMA, "c8y_Firmware">> >>

C2_FirmwarePublishesInOrder ==
    \A k \in 1..Len(ops) :
        (IsOperation(k) /\ ops[k].record[1] = <<"515">>) =>
            /\ IsPrefix(Texts(OpTrace(k)), C2_FirmwareLifecycle(k))
            /\ Returned(k) => Texts(OpTrace(k)) = C2_FirmwareLifecycle(k)
            /\ PastExecuting(k) => Len(OpTrace(k)) >= 1

\* C2 witness: the request 515,dev1,fwA,2.0,http://x has returned and its
\* second publish was the row 115,fwA,2.0,http://x.
C2_Witness ==
    \E k \in 1..Len(ops) :
        /\ ops[k].payload = <<"515", COMMA, "dev1", COMMA, "fwA", COMMA, "2.0", COMMA, "http://x">>
        /\ Returned(k)
        /\ Len(OpTrace(k)) = 3
        /\ OpTrace(k)[2].msg = <<"115", COMMA, "fwA", COMMA, "2.0", COMMA, "http://x">>

\* C3: a row whose template identifier is none of the operation-request
\* identifiers is handled with no publish on any topic and without a fault:
\* the handler returns, the process keeps running and the handler is free
\* for the next message.
IsUnrecognized(k) ==
    /\ ops[k].record # <<>>
    /\ \A id \in OperationIds : ops[k].record[1] # <<id>>

C3_UnsupportedPublishesNothing ==
    \A k \in 1..Len(ops) :
        IsUnrecognized(k) =>
            /\ ops[k].state = "unsupported"
            /\ OpTrace(k) = <<>>
            /\ k = Len(ops) => (proc = "running" /\ hPc = "idle")

\* C3 witness: an unsupported row was handled and the message after it went
\* through its whole lifecycle.
C3_Witness ==
    \E k \in 1..Len(ops) :
        /\ IsUnrecognized(k)
        /\ k < Len(ops)
        /\ Returned(k + 1)
        /\ Len(OpTrace(k + 1)) >= 2

\* The least number of fields a row of each operation-request template must
\* have (identifier included), and the capability name of each template.
MinFields(id) ==
    CASE id = "510" -> 2 [] id = "511" -> 3 [] id = "515" -> 5
      [] id = "522" -> 7 [] id = "528" -> 2 [] id = "530" -> 5
CapabilityOf(id) ==
    CASE id = "510" -> "c8y_Restart" [] id = "511" -> "c8y_Command"
      [] id = "515" -> "c8y_Firmware" [] id = "522" -> "c8y_LogfileRequest"
      [] id = "528" -> "c8y_SoftwareUpdate" [] id = "530" -> "c8y_RemoteAccessConnect"

\* Handler call k dispatched on a row of operation-request template id.
RowOf(k, id) == ops[k].record # <<>> /\ ops[k].record[1] = <<id>>

\* C4: a row of an operation-request template with fewer fields than the
\* template needs is dropped: no publish is made for it, the handler call
\* does not end in a run-time fault, and the process keeps running for the
\* messages that follow.
C4_ShortRowDropped ==
    \A k \in 1..Len(ops) :
        (\E id \in OperationIds : RowOf(k, id) /\ Len(ops[k].record) < MinFields(id)) =>
            /\ ops[k].state # "panicked"
            /\ OpTrace(k) = <<>>
            /\ proc # "panicked"

\* The status facts naming capability c, in publish order.
CapabilityFacts(c) ==
    SelectSeq(published, LAMBDA e : IsStatusFact(e) /\ Len(e.msg) >= 3 /\ e.msg[3] = c)

\* C5: when operations overlap in arrival, the publish trace restricted to
\* the status facts of one capability name is EXECUTING, terminal,
\* EXECUTING, terminal, ...: one 501 row for every operation of that kind
\* past its first publish, one 503 row for every one that returned, each
\* pair published by one handler call whose row is of that kind.
C5_PerCapabilityTraceOrdered ==
    \A id \in OperationIds :
        LET f == CapabilityFacts(CapabilityOf(id))
            started == Cardinality({k \in 1..Len(ops) : RowOf(k, id) /\ PastExecuting(k)})
            done == Cardinality({k \in 1..Len(ops) : RowOf(k, id) /\ Returned(k)})
        IN  /\ Len(f) = started + done
            /\ \A i \in 1..Len(f) :
                 /\ f[i].msg[1] = (IF i % 2 = 1 THEN "501" ELSE "503")
                 /\ f[i].task = "handler"
                 /\ RowOf(f[i].op, id)
                 /\ i % 2 = 0 => f[i].op = f[i - 1].op
                 /\ (i % 2 = 1 /\ i > 1) => f[i].op # f[i - 1].op

\* C5 witness: a shell command and a firmware update, the second delivered
\* while the handler of the first was running, have both returned.
C5_Witness ==
    /\ Len(ops) = 2
    /\ ops[2].busy
    /\ \/ RowOf(1, "511") /\ RowOf(2, "515")
       \/ RowOf(1, "515") /\ RowOf(2, "511")
    /\ Returned(1) /\ Returned(2)
    /\ Len(CapabilityFacts("c8y_Command")) = 2
    /\ Len(CapabilityFacts("c8y_Firmware")) = 2

\* C6: for a software-update row whose fields after identifier and serial
\* are a multiple of four, the parsed package list has (fields - 2) / 4
\* entries and entry i (from 0) is made of fields 2+4i .. 5+4i, in input
\* order; the row 528,dev1,sw1,1.0,u1,install,sw2,2.0,u2,install gives the
\* two packages {sw1,1.0,u1,install} and {sw2,2.0,u2,install}.
C6_Example == <<"528", COMMA, "dev1", COMMA, "sw1", COMMA, "1.0", COMMA, "u1", COMMA, "install",
                COMMA, "sw2", COMMA, "2.0", COMMA, "u2", COMMA, "install">>

C6_PackagesParsedInGroups ==
    \A k \in 1..Len(ops) :
        LET r == ops[k].record
        IN  (RowOf(k, "528") /\ Len(r) >= 2 /\ (Len(r) - 2) % 4 = 0) =>
                /\ Len(ops[k].packages) = (Len(r) - 2) \div 4
                /\ \A i \in 0..(Len(ops[k].packages) - 1) :
                     ops[k].packages[i + 1] =
                         [name |-> r[3 + 4 * i], version |-> r[4 + 4 * i],
                          url |-> r[5 + 4 * i], action |-> r[6 + 4 * i]]
                /\ ops[k].payload = C6_Example =>
                     ops[k].packages =
                         << [name |-> <<"sw1">>, version |-> <<"1.0">>,
                             url |-> <<"u1">>, action |-> <<"install">>],
                            [name |-> <<"sw2">>, version |-> <<"2.0">>,
                             url |-> <<"u2">>, action |-> <<"install">>] >>

\* C6 witness: the example row was parsed into two packages.
C6_Witness ==
    \E k \in 1..Len(ops) :
        ops[k].payload = C6_Example /\ Len(ops[k].packages) = 2

\* C7: a software-update row whose fields after identifier and serial are
\* not a multiple of four is rejected: no package list is built from it and
\* no status fact is published for it.
C7_UnevenTailRejected ==
    \A k \in 1..Len(ops) :
        LET r == ops[k].record
        IN  (RowOf(k, "528") /\ Len(r) >= 2 /\ (Len(r) - 2) % 4 # 0) =>
                /\ ops[k].packages = <<>>
                /\ OpTrace(k) = <<>>

\* The rows of a payload that are rows of an operation-request template.
OperationRows(payload) ==
    LET recs == ReadAll(payload)
    IN  {i \in 1..Len(recs) : \E id \in OperationIds : recs[i][1] = <<id>>}

\* C8: a payload of several rows gets one lifecycle per operation row: once
\* the handler has returned, it has published as many 501 rows and as many
\* 503 rows as the payload has operation rows.
C8_OneLifecyclePerRow ==
    \A k \in 1..Len(ops) :
        Returned(k) =>
            LET f == StatusFacts(k)
                n == Cardinality(OperationRows(ops[k].payload))
            IN  /\ Cardinality({i \in 1..Len(f) : f[i].msg[1] = "501"}) = n
                /\ Cardinality({i \in 1..Len(f) : f[i].msg[1] = "503"}) = n

\* A payload that is empty, or in which the quote character occurs an odd
\* number of times.
EmptyOrUnbalanced(payload) ==
    \/ payload = <<>>
    \/ Cardinality({i \in 1..Len(payload) : payload[i] = QUOTE}) % 2 = 1

\* C9: an empty payload or one with unbalanced quoting is dropped with no
\* publish and without a fault of the handler, and the process keeps
\* running for the next message.
C9_BadPayloadDropped ==
    \A k \in 1..Len(ops) :
        EmptyOrUnbalanced(ops[k].payload) =>
            /\ ops[k].state # "panicked"
            /\ OpTrace(k) = <<>>
            /\ proc = "running"

C11_StatusFactsNameOwnCapability ==
    \A k \in 1..Len(ops) :
        \A id \in OperationIds :
            (IsOperation(k) /\ RowOf(k, id)) =>
                \A i \in 1..Len(StatusFacts(k)) :
                    /\ Len(StatusFacts(k)[i].msg) = 3
                    /\ StatusFacts(k)[i].msg[2] = COMMA
                    /\ StatusFacts(k)[i].msg[3] = CapabilityOf(id)

\* C11 witness: a log-file request has returned and both of its status
\* facts name c8y_LogfileRequest.
C11_Witness ==
    \E k \in 1..Len(ops) :
        /\ RowOf(k, "522") /\ Returned(k)
        /\ Len(StatusFacts(k)) = 2
        /\ StatusFacts(k)[1].msg[3] = "c8y_LogfileRequest"
        /\ StatusFacts(k)[2].msg[3] = "c8y_LogfileRequest"

\* C12: every publish of the program, whether made by the startup sequence,
\* by the telemetry loop or by the operation handler, is made at quality of
\* service 1 and not retained.
C12_AlwaysQos1NotRetained ==
    \A i \in 1..Len(published) :
        published[i].qos = 1 /\ published[i].retained = FALSE

\* C12 witness: the startup sequence (its JSON fragment included), the
\* telemetry loop (its JSON event included) and the handler have all
\* published.
C12_Witness ==
    /\ \E i \in 1..Len(published) :
         published[i].task = "main" /\ published[i].topic # <<"s/us">>
    /\ \E i \in 1..Len(published) :
         published[i].task = "telemetry" /\ published[i].topic = <<"event/events/create">>
    /\ \E i \in 1..Len(published) :
         published[i].task = "telemetry" /\ published[i].topic = <<"s/us">>
    /\ \E i \in 1..Len(published) : published[i].task = "handler"

\* C13: the 115 inventory row published for a firmware update decodes to
\* exactly the four fields 115, name, version, url of the request, also
\* when one of them holds a comma or a quote.
C13_InventoryRowRoundTrips ==
    \A k \in 1..Len(ops) :
        (IsOperation(k) /\ RowOf(k, "515")) =>
            \A i \in 1..Len(OpTrace(k)) :
                OpTrace(k)[i].msg[1] = "115" =>
                    ReadAll(OpTrace(k)[i].msg) =
                        << << <<"115">>, ops[k].record[3], ops[k].record[4],
                              ops[k].record[5] >> >>

\* C14: when the publish of an operation's EXECUTING fact ends in a
\* transport error, the lifecycle of that operation stops there: the failed
\* 501 row stays the only publish of that handler call.
C14_FailedExecutingStopsLifecycle ==
    \A k \in 1..Len(ops) :
        (IsOperation(k) /\ OpTrace(k) # <<>> /\ ~OpTrace(k)[1].ok) =>
            Len(OpTrace(k)) = 1

\* The attempts to publish the terminal status fact of handler call k.
TerminalAttempts(k) ==
    SelectSeq(OpTrace(k), LAMBDA e : e.msg[1] \in {"502", "503"})

\* C15: the terminal status fact of an operation is handed to the transport
\* at most twice, whether or not the transport accepts it; and once the
\* attempt has failed the fact is dropped and the engine goes on: the
\* handler call has returned, and until the next message is taken up the
\* process is running and ready to take up a message that waits.
C15_TerminalRetriedAtMostOnce ==
    \A k \in 1..Len(ops) :
        IsOperation(k) =>
            /\ Len(TerminalAttempts(k)) <= 2
            /\ (TerminalAttempts(k) # <<>> /\ ~TerminalAttempts(k)[1].ok) =>
                   /\ Returned(k)
                   /\ k = Len(ops) =>
                          /\ proc = "running"
                          /\ inbox # <<>> => ENABLED HandleReceive

\* C15 witness: the terminal fact of the first operation was refused by the
\* transport, no accepted terminal fact exists for it, and the engine has
\* completed the lifecycle of the operation that followed.
C15_Witness ==
    /\ Len(ops) = 2
    /\ IsOperation(1) /\ IsOperation(2)
    /\ TerminalAttempts(1) # <<>>
    /\ \A i \in 1..Len(TerminalAttempts(1)) : ~TerminalAttempts(1)[i].ok
    /\ Returned(2)
    /\ TerminalAttempts(2) # <<>>

\* C16: when the connection is lost after an operation's EXECUTING fact
\* was published and before its terminal fact, nothing further is handed to
\* the transport for that operation: every publish of the handler call is
\* made in the connection period of its EXECUTING publish.
C16_NothingPublishedAfterDisconnect ==
    \A k \in 1..Len(ops) :
        IsOperation(k) =>
            \A i \in 1..Len(OpTrace(k)) :
                OpTrace(k)[i].epoch = OpTrace(k)[1].epoch

\* The template identifiers of the rows of a message text, one per
\* non-empty line, in order.
RowIds(msg) ==
    LET starts == SelectSeq([i \in 1..Len(msg) |-> i],
                            LAMBDA i : msg[i] # NL /\ (i = 1 \/ msg[i - 1] = NL))
    IN  [j \in 1..Len(starts) |-> msg[starts[j]]]

TelemetryTrace == SelectSeq(published, LAMBDA e : e.task = "telemetry")

\* C17: each message handed to the transport carries one complete row or
\* one complete batch, whatever the interleaving of the telemetry loop with
\* the handler: every round of the telemetry loop publishes its six rows
\* (200, 200, 200, 201, 400, 301) as one message followed by its JSON
\* event; every message of the handler is one single status or inventory
\* row; and no status row occurs in a message of another task.
C17_OneRowOrBatchPerMessage ==
    /\ LET tel == TelemetryTrace
       IN  \A j \in 1..Len(tel) :
               IF j % 2 = 1
               THEN /\ tel[j].topic = <<"s/us">>
                    /\ RowIds(tel[j].msg) = <<"200", "200", "200", "201", "400", "301">>
               ELSE tel[j].topic = <<"event/events/create">>
    /\ \A i \in 1..Len(published) :
         LET msg == published[i].msg
         IN  IF published[i].task = "handler"
             THEN /\ published[i].topic = <<"s/us">>
                  /\ \A n \in 1..Len(msg) : msg[n] # NL
                  /\ msg[1] \in {"501", "502", "503", "115", "116"}
             ELSE \A n \in 1..Len(msg) :
                     (n = 1 \/ msg[n - 1] = NL) => msg[n] \notin {"501", "502", "503"}

\* C17 witness: a telemetry batch was published between the EXECUTING fact
\* and the terminal fact of one operation.
C17_Witness ==
    \E i, j, l \in 1..Len(published) :
        /\ i < j /\ j < l
        /\ published[i].task = "handler" /\ published[i].msg[1] = "501"
        /\ published[j].task = "telemetry" /\ published[j].topic = <<"s/us">>
        /\ published[l].task = "handler" /\ published[l].op = published[i].op
        /\ published[l].msg[1] = "503"

\* C18: a slow handler does not block the reception of the operations that
\* follow: while a handler call is between its EXECUTING publish and its
\* terminal publish and a further message has been delivered, the handler
\* can be started on that message (so that its EXECUTING fact can precede
\* the terminal fact of the call in progress).
C18_SlowHandlerDoesNotBlock ==
    (/\ proc = "running"
     /\ hPc \in {"acting", "inventory", "terminal"}
     /\ inbox # <<>>) => ENABLED HandleReceive

\* C19: every operation that published its EXECUTING fact eventually
\* publishes its terminal fact, given that the handler's sleeps end and its
\* publishes return, also while the telemetry loop publishes on the same
\* channel.
C19_ExecutingLeadsToTerminal ==
    \A k \in 1..MaxMsgs :
        (Len(ops) >= k /\ IsOperation(k) /\ StatusFacts(k) # <<>>)
            ~> (Len(ops) >= k /\ TerminalAttempts(k) # <<>>)

\* C19 witness: an operation has published its terminal fact after a JSON
\* event of the telemetry loop that was published after the operation's
\* EXECUTING fact.
C19_Witness ==
    \E i, j, l \in 1..Len(published) :
        /\ i < j /\ j < l
        /\ published[i].task = "handler" /\ published[i].msg[1] = "501"
        /\ published[j].task = "telemetry"
        /\ published[j].topic = <<"event/events/create">>
        /\ published[l].task = "handler" /\ published[l].op = published[i].op
        /\ published[l].msg[1] \in {"502", "503"}
        /\ Returned(published[l].op)

\* The template identifiers of the rows main publishes at startup, in the
\* order of the claim.
StartupIds == <<"100", "114", "115", "116", "110", "112", "118", "122", "117">>

\* C20: startup is ordered: the first publishes of the program are, in this
\* order, the rows 100, 114, 115, 116, 110, 112, 118, 122, 117 and the
\* custom JSON fragment, all made by main; the telemetry loop is started
\* and the subscription is made only after them, so every telemetry
\* message and every operation status fact comes after them.
C20_StartupOrdered ==
    /\ \A i \in 1..Len(published) :
         /\ i <= Len(StartupIds) =>
               /\ published[i].task = "main"
               /\ published[i].topic = <<"s/us">>
               /\ published[i].msg[1] = StartupIds[i]
         /\ i = Len(StartupIds) + 1 =>
               /\ published[i].task = "main"
               /\ published[i].topic[1] = "inventory/managedObjects/update/"
         /\ i > Len(StartupIds) + 1 => published[i].task # "main"
    /\ (telPc # "off" \/ subscribed \/ delivered > 0) =>
           Len(published) >= Len(StartupIds) + 1

\* C20 witness: after the complete startup sequence the telemetry loop has
\* published a batch and the handler an operation status fact.
C20_Witness ==
    /\ subscribed
    /\ \E i \in 1..Len(published) :
         published[i].task = "telemetry" /\ published[i].topic = <<"s/us">>
    /\ \E i \in 1..Len(published) :
         published[i].task = "handler" /\ IsStatusFact(published[i])

====
